---- MODULE Spec2Model ----
(***************************************************************************)
(* A model of lambda_venv/cli.py: the command-line harness                 *)
(* (CommandLineInterface.run, pretty_print, get_aws_session, get_s3, the   *)
(* module-level run) as a state machine over one invocation.               *)
(*                                                                         *)
(* Python's None is the string "None" for optional strings and optional    *)
(* booleans ("True"/"False" are the set values), 0 for optional handles.   *)
(* Text is a sequence of chunks (strings); the text written is the         *)
(* concatenation of the chunks.                                            *)
(***************************************************************************)
EXTENDS Integers, Sequences, FiniteSets, TLC

VARIABLES
  pc,          \* position of the run: Initialized, ArgsParsed, Configured,
               \* Dispatched, and Returned or Raised once run() is left
  argv,        \* what the command line asks for (see Argvs)
  tty,         \* what isatty() answered for each standard stream when run()
               \* probed it: "yes", "no", or "unprobed"
  self,        \* the CommandLineInterface instance's fields
  sys_stdout,  \* the object bound to sys.stdout
  sys_stderr,  \* the object bound to sys.stderr
  logging_configured, \* logging.basicConfig and the setLevel loop have run
  logger_level, \* the level of each logger run() touches (see Loggers)
  stdout_tail, \* text appended to the default output stream by the most
               \* recent operation (handler call)
  stderr,      \* lines written to the diagnostic stream, in order
  file,        \* content of the configured output file, NoFile if never opened
  open_files,  \* file handles currently open
  n_create,    \* create_aws_session calls that returned a session
  n_client,    \* session.client('s3') calls that returned a client
  dispatched,  \* args.func() calls made so far
  n_parse,     \* parser.parse_args calls made so far
  lastOp,      \* the most recent handler operation: its arguments and outcome
  caught,      \* the failure caught by run's `except Exception`, NoExc if none
  result,      \* outcome of CommandLineInterface.run
  returned     \* the normal return of args.func(), NoResult if there is none

vars == <<pc, argv, tty, self, sys_stdout, sys_stderr,
          logging_configured, logger_level, stdout_tail, stderr, file,
          open_files, n_create, n_client, dispatched, n_parse, lastOp, caught,
          result, returned>>

-----------------------------------------------------------------------------
None == "None"
OptBool == {"None", "True", "False"}

-----------------------------------------------------------------------------
(* Failures *)

NoExc == [type |-> "None", code |-> 0, msg |-> ""]

\* CmdExitError.__init__: the default message names the exit code
CmdExitError(exit_code, msg) ==
  [type |-> "CmdExitError", code |-> exit_code,
   msg |-> IF msg = None
             THEN "Command exited with return code " \o ToString(exit_code)
             ELSE msg]

\* ArgparseExitError: a CmdExitError subclass
ArgparseExitError(exit_code, msg) ==
  [CmdExitError(exit_code, msg) EXCEPT !.type = "ArgparseExitError"]

\* the exception sys.exit(status) raises: a BaseException, not an Exception
SystemExit(status) ==
  [type |-> "SystemExit", code |-> status, msg |-> ToString(status)]

\* subprocess.CalledProcessError(returncode, cmd)
CalledProcessError(returncode, cmd) ==
  [type |-> "CalledProcessError", code |-> returncode,
   msg |-> "Command '" \o cmd \o "' returned non-zero exit status "
             \o ToString(returncode) \o "."]

\* any other Exception (a failed session construction, a missing credential)
RuntimeError(msg) == [type |-> "RuntimeError", code |-> 0, msg |-> msg]

\* isinstance(ex, CmdExitError)
IsCmdExitError(ex) == ex.type \in {"CmdExitError", "ArgparseExitError"}

\* isinstance(ex, ArgparseExitError): what `except ArgparseExitError` catches
IsArgparseExitError(ex) == ex.type = "ArgparseExitError"

\* isinstance(ex, Exception): what `except Exception` catches
IsException(ex) == ex.type \notin {"None", "SystemExit"}

-----------------------------------------------------------------------------
(* JSON values and the encoder *)

JNull == [t |-> "null"]
JBool(b) == [t |-> "bool", b |-> b]
JNum(n) == [t |-> "int", n |-> n]
JStr(s) == [t |-> "str", s |-> s]
JList(items) == [t |-> "list", items |-> items]
\* a dict: its items in insertion order, each <<key, value>>
JDict(items) == [t |-> "dict", items |-> items]

\* json's string escaping (py_encode_basestring_ascii), on the strings used:
\* a quote, a newline and a backslash are escaped, other characters are kept
Escape(s) ==
  CASE s = "a\"b" -> "a\\\"b"
    [] s = "x\ny" -> "x\\ny"
    [] s = "c:\\d" -> "c:\\\\d"
    [] OTHER -> s
Quote(s) == <<"\"", Escape(s), "\"">>

\* '\n' + ' ' * (indent * level), for indent = 2
NewlineIndent(level) ==
  CASE level = 0 -> "\n"
    [] level = 1 -> "\n  "
    [] level = 2 -> "\n    "
    [] OTHER -> "\n      "

\* the order of dict keys under sort_keys=True: by code point, on the keys used
KeyRank(k) ==
  CASE k = "B" -> 0 [] k = "a" -> 1 [] k = "b" -> 2 [] k = "c" -> 3 [] OTHER -> 4

RECURSIVE Insert(_, _)
Insert(item, sorted) ==
  IF sorted = <<>> THEN <<item>>
  ELSE IF KeyRank(item[1]) < KeyRank(Head(sorted)[1])
         THEN <<item>> \o sorted
         ELSE <<Head(sorted)>> \o Insert(item, Tail(sorted))

\* the items left in insertion order
SortItems_insertion_order(items) == items

RECURSIVE SortItems(_)
SortItems(items) ==
  IF items = <<>> THEN <<>> ELSE Insert(Head(items), SortItems(Tail(items)))

\* json's encoder with sort_keys=True: the chunks of the encoding of v.
\* compact: separators (',', ':') and no indent; otherwise indent=2, (',', ': ')
RECURSIVE iterencode(_, _, _)
RECURSIVE iterencode_items(_, _, _, _, _)
iterencode_items(kind, items, i, compact, level) ==
  IF i > Len(items) THEN <<>>
  ELSE
    LET sep == IF i = 1 THEN <<>>
               ELSE IF compact THEN <<",">> ELSE <<",", NewlineIndent(level)>>
        key == IF kind = "dict"
                 THEN Quote(items[i][1]) \o <<IF compact THEN ":" ELSE ": ">>
                 ELSE <<>>
        val == iterencode(IF kind = "dict" THEN items[i][2] ELSE items[i],
                          compact, level)
    IN sep \o key \o val \o iterencode_items(kind, items, i + 1, compact, level)

iterencode(v, compact, level) ==
  CASE v.t = "null" -> <<"null">>
    [] v.t = "bool" -> <<IF v.b THEN "true" ELSE "false">>
    [] v.t = "int" -> <<ToString(v.n)>>
    [] v.t = "str" -> Quote(v.s)
    [] OTHER ->
         LET open == IF v.t = "list" THEN "[" ELSE "{"
             close == IF v.t = "list" THEN "]" ELSE "}"
             items == IF v.t = "dict" THEN SortItems(v.items) ELSE v.items
         IN IF items = <<>> THEN <<open \o close>>
            ELSE (IF compact THEN <<open>>
                  ELSE <<open, NewlineIndent(level + 1)>>)
                 \o iterencode_items(v.t, items, 1, compact, level + 1)
                 \o (IF compact THEN <<close>>
                     ELSE <<NewlineIndent(level), close>>)

-----------------------------------------------------------------------------
(* Logging *)

\* the choices of --loglevel
LogLevelChoices == {"critical", "error", "warning", "info", "debug"}

\* str.upper(), on the level names
upper(s) ==
  CASE s = "critical" -> "CRITICAL"
    [] s = "error" -> "ERROR"
    [] s = "warning" -> "WARNING"
    [] s = "info" -> "INFO"
    [] s = "debug" -> "DEBUG"
    [] OTHER -> s

\* the numeric value of a level name (logging's table of level names)
nameToLevel(name) ==
  CASE name = "CRITICAL" -> 50
    [] name = "ERROR" -> 40
    [] name = "WARNING" -> 30
    [] name = "INFO" -> 20
    [] name = "DEBUG" -> 10
    [] OTHER -> 0

\* logging.INFO, logging.WARNING, logging.NOTSET
INFO == nameToLevel("INFO")
WARNING == nameToLevel("WARNING")
NOTSET == nameToLevel("NOTSET")

\* the loggers run() names in its loop
ChattyLoggers ==
  {"botocore.hooks", "botocore.parsers", "botocore.auth", "botocore.endpoint",
   "botocore.httpsession", "botocore.loaders", "botocore.retryhandler",
   "botocore.utils", "botocore.client", "botocore.session",
   "botocore.handlers", "botocore.awsrequest", "botocore.regions",
   "urllib3.connectionpool", "s3transfer.utils", "s3transfer.tasks",
   "s3transfer.futures"}

CredentialsLogger == "botocore.credentials"

\* the loggers whose level run() reads or sets; "root" is logging.getLogger()
Loggers == {"root"} \cup ChattyLoggers \cup {CredentialsLogger}

\* Python's max, on two integers
max(a, b) == IF a >= b THEN a ELSE b

\* logging.basicConfig(level=...) in a process whose root logger has no
\* handler yet: the root logger's level is set
basicConfig(levels, level) == [levels EXCEPT !["root"] = nameToLevel(level)]

\* the loop setting every chatty logger to the requested level itself
restrict_loggers_to_requested(levels) ==
  LET logLevel == levels["root"]
  IN [name \in Loggers |->
        IF name = "root" THEN levels[name] ELSE logLevel]

\* `logLevel = logging.getLogger().level`, the setLevel loop and the setLevel
\* of the credentials logger
restrict_loggers(levels) ==
  LET logLevel == levels["root"]
  IN [name \in Loggers |->
        CASE name \in ChattyLoggers -> max(logLevel, INFO)
          [] name = CredentialsLogger -> max(logLevel, WARNING)
          [] OTHER -> levels[name]]

-----------------------------------------------------------------------------
(* Inputs *)

\* from .version import __version__ as pkg_version
pkg_version == JStr("1.0.0")

\* values handed to pretty_print: a string (with a character JSON escapes) and
\* a dict whose keys are not in sorted order, holding a list
Values ==
  { JStr("a\"b"),
    JDict(<< <<"b", JNum(1)>>, <<"a", JList(<<JStr("x"), JNum(2)>>)>> >>) }

\* structured documents handed to pretty_print: every kind of JSON value, empty
\* and nested containers, keys out of order, strings with escaped characters
Documents ==
  { JNull, JBool(TRUE), JNum(-7), JStr("x\ny"), JList(<<>>), JDict(<<>>),
    JList(<<JStr("a\"b"), JStr("")>>),
    JDict(<< <<"c", JDict(<< <<"b", JList(<<JNull, JBool(FALSE)>>)>>,
                             <<"B", JStr("c:\\d")>> >>)>>,
             <<"a", JList(<<JList(<<>>), JDict(<<>>), JNum(0)>>)>> >>) }

\* the subcommands: none, the two run() declares, and three kinds of handler a
\* subcommand registers (a CommandHandler): "render" prints values, "access"
\* uses the cloud session and storage client and prints a result, "exit"
\* returns or raises at once, "dump" prints documents in the indented form
Commands == {"", "version", "test", "render", "access", "exit", "dump"}

\* the command line. parse = "ok": the grammar accepts it; otherwise the grammar
\* parser stops early (options are then irrelevant and left at their defaults).
\* Each handler is run with every combination of the options it or the code
\* around it reads: --traceback is read by run() when a handler fails, which
\* the "exit" handler covers, and the output options by pretty_print alone.
\* --loglevel is read by the logging setup alone, which no handler looks at.
Argvs ==
  [parse : {"ok"}, traceback : BOOLEAN, monochrome : BOOLEAN,
   loglevel : {"warning"},
   compact : BOOLEAN, raw : BOOLEAN, output_file : {None, "out.json"},
   command : {"", "version", "test"}]
  \cup
  [parse : {"ok"}, traceback : {FALSE}, monochrome : {TRUE},
   loglevel : LogLevelChoices,
   compact : {FALSE}, raw : {FALSE}, output_file : {None},
   command : {"", "test"}]
  \cup
  [parse : {"ok"}, traceback : {FALSE}, monochrome : BOOLEAN,
   loglevel : {"warning"},
   compact : BOOLEAN, raw : BOOLEAN, output_file : {None, "out.json"},
   command : {"render"}]
  \cup
  [parse : {"ok"}, traceback : BOOLEAN, monochrome : BOOLEAN,
   loglevel : {"warning"},
   compact : {FALSE}, raw : {FALSE}, output_file : {None},
   command : {"access", "exit"}]
  \cup
  [parse : {"help", "invalid_value", "unknown_command", "missing_value"},
   traceback : {FALSE}, monochrome : {FALSE}, loglevel : {"warning"},
   compact : {FALSE}, raw : {FALSE}, output_file : {None}, command : {""}]

\* the command lines of a "dump" handler, with every output option
DumpArgvs ==
  [parse : {"ok"}, traceback : {FALSE}, monochrome : BOOLEAN,
   loglevel : {"warning"},
   compact : BOOLEAN, raw : BOOLEAN, output_file : {None, "out.json"},
   command : {"dump"}]

\* exit codes a handler returns or puts in a CmdExitError
ExitCodes == {0, 1, 3}

\* what a pretty_print call meets outside the program. jq: how the external
\* formatter behaves once spawned, its exit status and how much of its output
\* it wrote to the stream it was given before exiting (a formatter that exits
\* 0 wrote all of it). disk_full: whether writing to the output file fails
\* part way. The standard streams accept every write.
Completes == [status |-> 0, wrote |-> "all"]
FormatterRuns ==
  {Completes} \cup [status : {5}, wrote : {"nothing", "part", "all"}]
Quiet == [jq |-> Completes, disk_full |-> FALSE]
Surroundings == [jq : FormatterRuns, disk_full : BOOLEAN]

-----------------------------------------------------------------------------
(* Outcomes of a call *)

NoResult == [kind |-> "none", rc |-> 0, exc |-> NoExc]
Return(rc) == [kind |-> "return", rc |-> rc, exc |-> NoExc]
Raise(ex) == [kind |-> "raise", rc |-> 0, exc |-> ex]

\* objects bound to the standard streams
Stdout == "<stdout>"
Stderr == "<stderr>"
AnsiToWin32(stream) == "AnsiToWin32(" \o stream \o ")"
StandardStreams == {Stdout, Stderr, AnsiToWin32(Stdout), AnsiToWin32(Stderr)}

NoFile == [exists |-> FALSE, text |-> <<>>]
NoClient == [session |-> 0, id |-> 0]

-----------------------------------------------------------------------------
(* The output renderer: CommandLineInterface.pretty_print *)

\* the raw argument taken as it is, the run's flag ignored
effective_raw_argument_only(raw) == raw = "True"

\* `if raw is None: raw = self._raw`
effective_raw(raw) == IF raw = None THEN self.raw ELSE raw = "True"

\* `if compact is None: compact = self._compact`
effective_compact(compact) ==
  IF compact = None THEN self.compact ELSE compact = "True"

\* `if colorize is None: colorize = True`
effective_colorize(colorize) == IF colorize = None THEN TRUE ELSE colorize = "True"

\* final_colorize without the identity tests on f
final_colorize_any_stream(f, colorize) ==
  colorize /\ (self.colorize_stdout \/ self.colorize_stderr)

\* emit_to's final_colorize, for the stream object f
final_colorize(f, colorize) ==
  colorize /\ (   (f = sys_stdout /\ self.colorize_stdout)
               \/ (f = sys_stderr /\ self.colorize_stderr))

\* the encoding of each value of the model, by value and compactness
Encoded ==
  [v \in Values \cup Documents \cup {pkg_version}, compact \in BOOLEAN |->
     iterencode(v, compact, 0)]

\* json.dump(value, f, ...) followed by f.write('\n'): the text
json_dump(value, compact) == Encoded[value, compact] \o <<"\n">>

\* what a formatter that runs to completion writes: the value, formatted and
\* wrapped in colour codes, and a newline
JqOutput(value, compact) ==
  <<"ESC[1;39m">> \o Encoded[value, compact] \o <<"ESC[0m", "\n">>

\* the first part of a text: what reached a stream when writing stopped early
Part(text) == SubSeq(text, 1, Len(text) \div 2)

\* the part of its output the formatter wrote before it exited
JqWritten(value, compact, jq) ==
  CASE jq.wrote = "all" -> JqOutput(value, compact)
    [] jq.wrote = "part" -> Part(JqOutput(value, compact))
    [] OTHER -> <<>>

\* the argument vector of the formatter, as CalledProcessError prints it
JqCmd(compact) == IF compact THEN "['jq', '-c', '.']" ELSE "['jq', '.']"

\* OSError(ENOSPC), from a write to a file on a full disk
DiskFull == [type |-> "OSError", code |-> 28,
             msg |-> "[Errno 28] No space left on device"]

\* emit_to(f): the text that reaches f, whether the formatter was spawned, and
\* the failure raised (NoExc on a normal return), in the surroundings env
emit_to(f, value, compact, colorize, env) ==
  IF ~final_colorize(f, colorize)
    THEN \* json.dump writes each chunk as the encoder produces it
      IF f \notin StandardStreams /\ env.disk_full
        THEN [text |-> Part(json_dump(value, compact)), spawned |-> FALSE,
              exc |-> DiskFull]
        ELSE [text |-> json_dump(value, compact), spawned |-> FALSE,
              exc |-> NoExc]
    ELSE \* Popen(cmd, stdin=PIPE, stdout=f): the child writes to f itself
      [text |-> JqWritten(value, compact, env.jq), spawned |-> TRUE,
       exc |-> IF env.jq.status # 0
                 THEN CalledProcessError(env.jq.status, JqCmd(compact))
                 ELSE NoExc]

\* open(output_file, "w"): the content of the file once opened
open_w(content) == <<>>

\* a close() that follows the block instead of a with statement: skipped when
\* the block raises
with_exit_skipped_on_failure(handles, exc) ==
  IF exc = NoExc THEN handles - 1 ELSE handles

\* leaving `with open(...) as f:`: the handles open afterwards, given those open
\* inside the block and the failure (or NoExc) the block ends with
with_exit(handles, exc) == handles - 1

\* pretty_print(value, compact, colorize, raw): what the call does.
\*   to: the stream object written to, text: what was written to it, file: the
\*   output file afterwards, opened: whether open() was called, discarded:
\*   whether open() truncated earlier content, handles: file handles open
\*   afterwards, spawned: whether the formatter was spawned, exc: the failure
\*   raised (NoExc on a normal return)
pretty_print(value, compact, colorize, raw, env) ==
  IF effective_raw(raw) /\ value.t = "str"
    THEN [to |-> self.raw_stdout, text |-> <<value.s>>, file |-> file,
          opened |-> FALSE, discarded |-> FALSE, handles |-> open_files,
          spawned |-> FALSE, exc |-> NoExc]
    ELSE
      LET compact_ == effective_compact(compact)
          colorize_ == effective_colorize(colorize)
          output_file == self.output_file
      IN IF output_file = None
           THEN LET e == emit_to(sys_stdout, value, compact_, colorize_, env)
                IN [to |-> sys_stdout, text |-> e.text, file |-> file,
                    opened |-> FALSE, discarded |-> FALSE,
                    handles |-> open_files, spawned |-> e.spawned,
                    exc |-> e.exc]
           ELSE LET f == "<file " \o output_file \o ">"
                    e == emit_to(f, value, compact_, colorize_, env)
                IN [to |-> f, text |-> e.text,
                    file |-> [exists |-> TRUE,
                              text |-> open_w(file.text) \o e.text],
                    opened |-> TRUE, discarded |-> file.text # <<>>,
                    handles |-> with_exit(open_files + 1, e.exc),
                    spawned |-> e.spawned, exc |-> e.exc]

-----------------------------------------------------------------------------
(* The resource accessor: get_aws_session, get_s3 *)

\* get_aws_session without the `is None` test: constructs on every call
get_aws_session_unmemoized(created) ==
  IF created
    THEN [session |-> n_create + 1, ret |-> n_create + 1, built |-> TRUE,
          tried |-> TRUE, exc |-> NoExc]
    ELSE [session |-> self.aws_session, ret |-> 0, built |-> FALSE,
          tried |-> TRUE, exc |-> RuntimeError("Unable to locate credentials")]

\* get_aws_session returning a new session without storing it
get_aws_session_not_stored(created) ==
  IF self.aws_session = 0
    THEN IF created
           THEN [session |-> 0, ret |-> n_create + 1,
                 built |-> TRUE, tried |-> TRUE, exc |-> NoExc]
           ELSE [session |-> 0, ret |-> 0, built |-> FALSE, tried |-> TRUE,
                 exc |-> RuntimeError("Unable to locate credentials")]
    ELSE [session |-> self.aws_session, ret |-> self.aws_session,
          built |-> FALSE, tried |-> FALSE, exc |-> NoExc]

\* get_aws_session(): created says whether create_aws_session returns a
\* session (TRUE) or raises (FALSE), should it be called.
\*   session: self._aws_session afterwards, ret: the handle returned,
\*   built: whether a session was constructed, exc: the failure raised
get_aws_session(created) ==
  IF self.aws_session = 0
    THEN IF created
           THEN [session |-> n_create + 1, ret |-> n_create + 1,
                 built |-> TRUE, tried |-> TRUE, exc |-> NoExc]
           ELSE [session |-> 0, ret |-> 0, built |-> FALSE, tried |-> TRUE,
                 exc |-> RuntimeError("Unable to locate credentials")]
    ELSE [session |-> self.aws_session, ret |-> self.aws_session,
          built |-> FALSE, tried |-> FALSE, exc |-> NoExc]

\* get_s3 without the `is None` test: derives a client on every call
get_s3_unmemoized(created, derived) ==
  LET sess == get_aws_session(created)
  IN IF sess.exc # NoExc
       THEN [s3 |-> self.s3, sess |-> sess, ret |-> NoClient,
             built |-> FALSE, exc |-> sess.exc]
       ELSE IF derived
         THEN LET client == [session |-> sess.ret, id |-> n_client + 1]
              IN [s3 |-> client, sess |-> sess, ret |-> client,
                  built |-> TRUE, exc |-> NoExc]
         ELSE [s3 |-> self.s3, sess |-> sess, ret |-> NoClient,
               built |-> FALSE, exc |-> RuntimeError("Unknown service: 's3'")]

\* get_s3(): derived says whether session.client('s3') returns a client.
\*   s3: self._s3 afterwards, sess: the result of the get_aws_session call made
\*   (or of none), ret: the client returned, built: whether a client was made
get_s3(created, derived) ==
  IF self.s3 = NoClient
    THEN LET sess == get_aws_session(created)
         IN IF sess.exc # NoExc
              THEN [s3 |-> NoClient, sess |-> sess, ret |-> NoClient,
                    built |-> FALSE, exc |-> sess.exc]
              ELSE IF derived
                THEN LET client == [session |-> sess.ret, id |-> n_client + 1]
                     IN [s3 |-> client, sess |-> sess, ret |-> client,
                         built |-> TRUE, exc |-> NoExc]
                ELSE [s3 |-> NoClient, sess |-> sess, ret |-> NoClient,
                      built |-> FALSE,
                      exc |-> RuntimeError("Unknown service: 's3'")]
    ELSE [s3 |-> self.s3,
          sess |-> [session |-> self.aws_session, ret |-> self.aws_session,
                    built |-> FALSE, tried |-> FALSE, exc |-> NoExc],
          ret |-> self.s3, built |-> FALSE, exc |-> NoExc]

-----------------------------------------------------------------------------
(* The run coordinator: CommandLineInterface.run *)

\* the handler the grammar binds to args.func: set_defaults(func=...)
FuncOf(command) ==
  CASE command = "version" -> "cmd_version"
    [] command = "test" -> "cmd_test"
    [] command \in {"render", "access", "exit", "dump"} -> command
    [] OTHER -> "cmd_bare"

\* the namespace parse_args returns for an accepted command line
ParsedArgs(a) ==
  [traceback |-> a.traceback, monochrome |-> a.monochrome,
   loglevel |-> a.loglevel, compact |-> a.compact, raw |-> a.raw,
   output_file |-> a.output_file, text_encoding |-> "utf-8", cwd |-> ".",
   func |-> FuncOf(a.command)]

NoArgs ==
  [traceback |-> FALSE, monochrome |-> FALSE, loglevel |-> "",
   compact |-> FALSE, raw |-> FALSE, output_file |-> None,
   text_encoding |-> "", cwd |-> "", func |-> None]

\* the status the grammar parser exits with: 0 after printing help, 2 on an error
GrammarStatus(parse) == IF parse = "help" THEN 0 ELSE 2

\* the message the grammar parser hands to exit(): none after help
GrammarMessage(parse) ==
  CASE parse = "help" -> None
    [] parse = "invalid_value" -> "lambda-venv: error: argument --loglevel: invalid choice"
    [] parse = "unknown_command" -> "lambda-venv: error: argument {version,test}: invalid choice"
    [] OTHER -> "lambda-venv: error: argument -o/--output: expected one argument"

\* NoExitArgumentParser.exit: raises ArgparseExitError(status, message)
NoExitArgumentParser_exit(status, message) == ArgparseExitError(status, message)

\* argparse.ArgumentParser.exit: sys.exit(status)
ArgumentParser_exit(status, message) == SystemExit(status)

\* the exit method of the parser run() builds, and of its subparsers:
\* `parser = argparse.ArgumentParser(...)`
parser_exit(status, message) == ArgumentParser_exit(status, message)

\* the terminal probed whatever --monochrome says
should_probe_always(monochrome) == TRUE

\* `if not monochrome:`, the test guarding the probe and the wrapping
should_probe(monochrome) == ~monochrome

\* is_colorizable(stream): hasattr(stream, 'isatty') and stream.isatty(),
\* given what isatty() answers
is_colorizable(isatty) == isatty

\* colorama.AnsiToWin32(stream).should_wrap(), for a terminal stream: the
\* wrapper converts ANSI codes only on a Windows console
should_wrap(windows) == windows

\* ecolor(codes), on the instance me
ecolor(me, codes) == IF me.colorize_stderr THEN codes ELSE ""

\* the line printed at the end of the `except Exception` block
Diagnostic(me, ex) ==
  [by |-> "run",
   text |-> ecolor(me, "ESC[31m") \o "lambda-venv: error: " \o ex.msg
              \o ecolor(me, "ESC[0m")]

\* the except block taking the code of any failure that carries one
except_Exception_any_code(me, traceback, ex) ==
  LET rc == IF IsCmdExitError(ex) \/ ex.type = "CalledProcessError"
              THEN ex.code ELSE 1
  IN IF rc # 0
       THEN IF traceback
              THEN [result |-> Raise(ex), lines |-> <<>>]
              ELSE [result |-> Return(rc), lines |-> <<Diagnostic(me, ex)>>]
       ELSE [result |-> Return(rc), lines |-> <<>>]

\* the except block without `if traceback: raise`
except_Exception_no_reraise(me, traceback, ex) ==
  LET rc == IF IsCmdExitError(ex) THEN ex.code ELSE 1
  IN [result |-> Return(rc),
      lines |-> IF rc # 0 THEN <<Diagnostic(me, ex)>> ELSE <<>>]

\* the except block printing the diagnostic before it looks at traceback
except_Exception_print_first(me, traceback, ex) ==
  LET rc == IF IsCmdExitError(ex) THEN ex.code ELSE 1
  IN IF rc # 0
       THEN [result |-> IF traceback THEN Raise(ex) ELSE Return(rc),
             lines |-> <<Diagnostic(me, ex)>>]
       ELSE [result |-> Return(rc), lines |-> <<>>]

\* the except block without the `if rc != 0` test
except_Exception_zero_as_failure(me, traceback, ex) ==
  LET rc == IF IsCmdExitError(ex) THEN ex.code ELSE 1
  IN IF traceback
       THEN [result |-> Raise(ex), lines |-> <<>>]
       ELSE [result |-> Return(rc), lines |-> <<Diagnostic(me, ex)>>]

\* the `except Exception as ex:` block and the return that follows it, for a
\* failure ex leaving the try block: the outcome of run() and the lines printed
except_Exception(me, traceback, ex) ==
  IF ~IsException(ex) THEN [result |-> Raise(ex), lines |-> <<>>]
  ELSE
    LET rc == IF IsCmdExitError(ex) THEN ex.code ELSE 1
    IN IF rc # 0
         THEN IF traceback
                THEN [result |-> Raise(ex), lines |-> <<>>]
                ELSE [result |-> Return(rc), lines |-> <<Diagnostic(me, ex)>>]
         ELSE [result |-> Return(rc), lines |-> <<>>]

\* the try block ends with the failure ex
Fail(me, ex) ==
  LET h == except_Exception(me, ParsedArgs(argv).traceback, ex)
  IN /\ caught' = IF IsException(ex) THEN ex ELSE NoExc
     /\ result' = h.result
     /\ stderr' = stderr \o h.lines
     /\ pc' = IF h.result.kind = "raise" THEN "Raised" ELSE "Returned"
     /\ UNCHANGED returned

\* a non-zero return value taken as a plain failure
Succeed_nonzero_as_failure(rc) ==
  /\ returned' = Return(rc)
  /\ result' = Return(IF rc = 0 THEN 0 ELSE 1)
  /\ pc' = "Returned"
  /\ UNCHANGED caught

\* the try block ends with the handler returning rc
Succeed(rc) ==
  /\ returned' = Return(rc)
  /\ result' = Return(rc)
  /\ pc' = "Returned"
  /\ UNCHANGED caught

NoOp ==
  [op |-> "none", value |-> JNum(0), compact |-> None, colorize |-> None,
   raw |-> None, to |-> "", text |-> <<>>, opened |-> FALSE,
   discarded |-> FALSE, spawned |-> FALSE, env |-> Quiet,
   ret |-> 0, client |-> NoClient, built |-> FALSE, tried |-> FALSE,
   before |-> [session |-> 0, s3 |-> NoClient], exc |-> NoExc]

\* the state after CommandLineInterface(argv), for the command lines argvs
InitWith(argvs) ==
  /\ pc = "Initialized"
  /\ argv \in argvs
  /\ tty = [stdout |-> "unprobed", stderr |-> "unprobed"]
  /\ self = [args |-> NoArgs, raw_stdout |-> Stdout, raw_stderr |-> Stderr,
             raw |-> FALSE, compact |-> FALSE, output_file |-> None,
             encoding |-> "utf-8", colorize_stdout |-> FALSE,
             colorize_stderr |-> FALSE, cwd |-> None, aws_session |-> 0,
             s3 |-> NoClient]
  /\ sys_stdout = Stdout
  /\ sys_stderr = Stderr
  /\ logging_configured = FALSE
  /\ logger_level = [name \in Loggers |->
                       IF name = "root" THEN WARNING ELSE NOTSET]
  /\ stdout_tail = <<>>
  /\ stderr = <<>>
  /\ file = NoFile
  /\ open_files = 0
  /\ n_create = 0
  /\ n_client = 0
  /\ dispatched = 0
  /\ n_parse = 0
  /\ lastOp = NoOp
  /\ caught = NoExc
  /\ result = NoResult
  /\ returned = NoResult

Init == InitWith(Argvs)

\* run(), from its first line to the end of the try around parse_args
ParseArgs ==
  /\ pc = "Initialized"
  /\ n_parse' = n_parse + 1
  /\ IF argv.parse = "ok"
       THEN /\ pc' = "ArgsParsed"
            /\ UNCHANGED <<stdout_tail, stderr, result>>
       ELSE \* the grammar parser prints and calls its exit()
         LET status == GrammarStatus(argv.parse)
             message == GrammarMessage(argv.parse)
             ex == parser_exit(status, message)
         IN /\ stdout_tail' = IF argv.parse = "help"
                                THEN <<"usage: lambda-venv [-h] ...">> ELSE <<>>
            /\ stderr' = IF message # None
                           THEN Append(stderr, [by |-> "argparse", text |-> message])
                           ELSE stderr
            /\ IF IsArgparseExitError(ex)
                 THEN result' = Return(ex.code) /\ pc' = "Returned"
                 ELSE result' = Raise(ex) /\ pc' = "Raised"
  /\ UNCHANGED <<argv, tty, self, sys_stdout, sys_stderr,
                 logging_configured, logger_level, file, open_files, n_create,
                 n_client, dispatched, lastOp, caught, returned>>

\* the ambient terminal state run() may find, whatever the command line says:
\* isatty() of each standard stream, and whether the console is a Windows one
\* (a console is a terminal)
Environments(monochrome) ==
  {e \in [stdout : BOOLEAN, stderr : BOOLEAN, windows : BOOLEAN] :
     e.windows => (e.stdout \/ e.stderr)}

Answer(b) == IF b THEN "yes" ELSE "no"

\* run(), from logging.basicConfig to the assignment of self._cwd. cwd_ok says
\* whether os.path.abspath finds a current directory or raises
Configure ==
  /\ pc = "ArgsParsed"
  /\ \E cwd_ok \in BOOLEAN, env \in Environments(ParsedArgs(argv).monochrome) :
       LET args == ParsedArgs(argv)
           probe == should_probe(args.monochrome)
           c_out == IF probe THEN is_colorizable(env.stdout)
                    ELSE self.colorize_stdout
           c_err == IF probe THEN is_colorizable(env.stderr)
                    ELSE self.colorize_stderr
           me == [self EXCEPT !.args = args,
                              !.raw_stdout = sys_stdout,
                              !.raw_stderr = sys_stderr,
                              !.raw = args.raw,
                              !.compact = args.compact,
                              !.output_file = args.output_file,
                              !.encoding = args.text_encoding,
                              !.colorize_stdout = c_out,
                              !.colorize_stderr = c_err,
                              !.cwd = IF cwd_ok THEN "/abs/" \o args.cwd
                                      ELSE self.cwd]
       IN /\ self' = me
          /\ tty' = IF probe
                       THEN [stdout |-> Answer(env.stdout),
                             stderr |-> Answer(env.stderr)]
                       ELSE tty
          /\ sys_stdout' = IF probe /\ c_out /\ should_wrap(env.windows)
                             THEN AnsiToWin32(sys_stdout) ELSE sys_stdout
          /\ sys_stderr' = IF probe /\ c_err /\ should_wrap(env.windows)
                             THEN AnsiToWin32(sys_stderr) ELSE sys_stderr
          /\ IF cwd_ok
               THEN /\ pc' = "Configured"
                    /\ UNCHANGED <<stderr, caught, result, returned>>
               ELSE Fail(me, [type |-> "FileNotFoundError", code |-> 2,
                              msg |-> "[Errno 2] No such file or directory"])
  /\ logger_level' = restrict_loggers(basicConfig(logger_level,
                                                   upper(ParsedArgs(argv).loglevel)))
  /\ logging_configured' = TRUE
  /\ UNCHANGED <<argv, stdout_tail, file, open_files, n_create,
                 n_client, dispatched, n_parse, lastOp>>

\* the handler called as soon as the arguments are parsed
Dispatch_before_setup ==
  /\ pc = "ArgsParsed"
  /\ pc' = "Dispatched"
  /\ dispatched' = dispatched + 1
  /\ UNCHANGED <<argv, tty, self, sys_stdout, sys_stderr,
                 logging_configured, logger_level, stdout_tail, stderr, file,
                 open_files, n_create, n_client, n_parse, lastOp, caught,
                 result, returned>>

\* `rc = args.func()`: the call
Dispatch ==
  /\ pc = "Configured"
  /\ pc' = "Dispatched"
  /\ dispatched' = dispatched + 1
  /\ UNCHANGED <<argv, tty, self, sys_stdout, sys_stderr,
                 logging_configured, logger_level, stdout_tail, stderr, file,
                 open_files, n_create, n_client, n_parse, lastOp, caught,
                 result, returned>>

-----------------------------------------------------------------------------
(* The handlers *)

Running(func) == pc = "Dispatched" /\ self.args.func = func

\* the part of a pretty_print result that reaches the default output stream
ToStdout(r) == IF r.to \in {Stdout, AnsiToWin32(Stdout)} THEN r.text ELSE <<>>

\* the record of a pretty_print call with result r
PrintOp(value, compact, colorize, raw, env, r) ==
  [NoOp EXCEPT !.op = "pretty_print", !.value = value, !.compact = compact,
               !.colorize = colorize, !.raw = raw, !.to = r.to,
               !.text = r.text, !.opened = r.opened,
               !.discarded = r.discarded, !.spawned = r.spawned,
               !.env = env,
               !.before = [session |-> self.aws_session, s3 |-> self.s3],
               !.exc = r.exc]

\* the surroundings that make a difference to a pretty_print call: the
\* formatter's behaviour if the call spawns it, the state of the disk if it
\* writes to the output file
SurroundingsOf(value, compact, colorize, raw) ==
  LET r == pretty_print(value, compact, colorize, raw, Quiet)
  IN {env \in Surroundings :
        /\ ~r.spawned => env.jq = Completes
        /\ ~(r.opened /\ ~r.spawned) => ~env.disk_full}

\* cmd_bare returning 0
cmd_bare_returns_zero ==
  /\ Running("cmd_bare")
  /\ stderr' = Append(stderr, [by |-> "cmd_bare", text |-> "A command is required"])
  /\ Succeed(0)
  /\ UNCHANGED <<argv, tty, self, sys_stdout, sys_stderr,
                 logging_configured, logger_level, stdout_tail, file, open_files, n_create,
                 n_client, dispatched, n_parse, lastOp>>

\* cmd_bare: print("A command is required", file=sys.stderr); return 1
cmd_bare ==
  /\ Running("cmd_bare")
  /\ stderr' = Append(stderr, [by |-> "cmd_bare", text |-> "A command is required"])
  /\ Succeed(1)
  /\ UNCHANGED <<argv, tty, self, sys_stdout, sys_stderr,
                 logging_configured, logger_level, stdout_tail, file, open_files, n_create,
                 n_client, dispatched, n_parse, lastOp>>

\* cmd_version: self.pretty_print(pkg_version); return 0
cmd_version ==
  /\ Running("cmd_version")
  /\ \E env \in SurroundingsOf(pkg_version, None, None, None) :
       LET r == pretty_print(pkg_version, None, None, None, env)
       IN /\ stdout_tail' = ToStdout(r)
          /\ file' = r.file
          /\ open_files' = r.handles
          /\ lastOp' = PrintOp(pkg_version, None, None, None, env, r)
          /\ IF r.exc = NoExc
               THEN Succeed(0) /\ UNCHANGED stderr
               ELSE Fail(self, r.exc)
  /\ UNCHANGED <<argv, tty, self, sys_stdout, sys_stderr,
                 logging_configured, logger_level, n_create, n_client, dispatched, n_parse>>

\* cmd_test: print(f"Test command, args={vars(args)}"); return 0
cmd_test ==
  /\ Running("cmd_test")
  /\ stdout_tail' = <<"Test command, args={...}", "\n">>
  /\ Succeed(0)
  /\ UNCHANGED <<argv, tty, self, sys_stdout, sys_stderr,
                 logging_configured, logger_level, stderr, file, open_files, n_create,
                 n_client, dispatched, n_parse, lastOp>>

\* the pretty_print calls a registered handler makes: a "render" handler any
\* call, an "access" handler one call with the defaults, of a structured
\* value, a "dump" handler pretty_print(document, compact=False, raw=False)
\* with or without a colorize argument
CallsOf(func) ==
  CASE func = "render" ->
         [value : Values, compact : OptBool, colorize : OptBool, raw : OptBool]
    [] func = "dump" ->
         [value : Documents, compact : {"False"}, colorize : {None, "False"},
          raw : {"False"}]
    [] OTHER ->
         [value : {v \in Values : v.t = "dict"}, compact : {None},
          colorize : {None}, raw : {None}]

\* the effects of the call c of pretty_print
Render(c) ==
  \E env \in SurroundingsOf(c.value, c.compact, c.colorize, c.raw) :
    LET r == pretty_print(c.value, c.compact, c.colorize, c.raw, env)
    IN /\ stdout_tail' = ToStdout(r)
       /\ file' = r.file
       /\ open_files' = r.handles
       /\ lastOp' = PrintOp(c.value, c.compact, c.colorize, c.raw, env, r)

\* pretty_print forgetting the memoized session and client
PrettyPrint_forgetting_session ==
  /\ \E h \in {"render", "access", "dump"} :
       Running(h) /\ \E c \in CallsOf(h) : Render(c)
  /\ self' = [self EXCEPT !.aws_session = 0, !.s3 = NoClient]
  /\ UNCHANGED <<pc, argv, tty, sys_stdout, sys_stderr,
                 logging_configured, logger_level, stderr, n_create, n_client,
                 dispatched, n_parse, caught, result, returned>>

\* a registered handler calls self.pretty_print(value, compact, colorize, raw)
PrettyPrint ==
  /\ \E h \in {"render", "access", "dump"} :
       Running(h) /\ \E c \in CallsOf(h) : Render(c)
  /\ UNCHANGED <<pc, argv, tty, self, sys_stdout, sys_stderr,
                 logging_configured, logger_level, stderr, n_create, n_client,
                 dispatched, n_parse, caught, result, returned>>

\* a registered handler calls self.get_aws_session()
GetAwsSession ==
  /\ Running("access")
  /\ \E created \in BOOLEAN :
       LET r == get_aws_session(created)
       IN /\ self' = [self EXCEPT !.aws_session = r.session]
          /\ n_create' = IF r.built THEN n_create + 1 ELSE n_create
          /\ lastOp' = [NoOp EXCEPT !.op = "get_aws_session", !.ret = r.ret,
                          !.built = r.built, !.tried = r.tried,
                          !.before = [session |-> self.aws_session,
                                      s3 |-> self.s3],
                          !.exc = r.exc]
  /\ stdout_tail' = <<>>
  /\ UNCHANGED <<pc, argv, tty, sys_stdout, sys_stderr,
                 logging_configured, logger_level, stderr, file, open_files, n_client,
                 dispatched, n_parse, caught, result, returned>>

\* a registered handler calls self.get_s3()
GetS3 ==
  /\ Running("access")
  /\ \E created \in BOOLEAN, derived \in BOOLEAN :
       LET r == get_s3(created, derived)
       IN /\ self' = [self EXCEPT !.aws_session = r.sess.session, !.s3 = r.s3]
          /\ n_create' = IF r.sess.built THEN n_create + 1 ELSE n_create
          /\ n_client' = IF r.built THEN n_client + 1 ELSE n_client
          /\ lastOp' = [NoOp EXCEPT !.op = "get_s3", !.ret = r.sess.ret,
                          !.client = r.ret, !.built = r.built,
                          !.tried = r.sess.tried,
                          !.before = [session |-> self.aws_session,
                                      s3 |-> self.s3],
                          !.exc = r.exc]
  /\ stdout_tail' = <<>>
  /\ UNCHANGED <<pc, argv, tty, sys_stdout, sys_stderr,
                 logging_configured, logger_level, stderr, file, open_files, dispatched, n_parse,
                 caught, result, returned>>

\* a registered handler returns rc: any code from an "exit" handler, 0 from
\* the others
HandlerReturn ==
  /\ \E h \in {"render", "access", "exit", "dump"} :
       /\ Running(h)
       /\ \E rc \in (IF h = "exit" THEN ExitCodes ELSE {0}) : Succeed(rc)
  /\ UNCHANGED <<argv, tty, self, sys_stdout, sys_stderr,
                 logging_configured, logger_level, stdout_tail, stderr, file, open_files,
                 n_create, n_client, dispatched, n_parse, lastOp>>

\* the failures a registered handler raises of its own accord
HandlerFailures ==
  {CmdExitError(c, m) : c \in ExitCodes, m \in {None, "boom"}}
  \cup {RuntimeError("boom"),
        [type |-> "NotImplementedError", code |-> 0,
         msg |-> "CommandHandler has not implemented __call__"]}

\* a registered handler raises: an "exit" handler a failure of its own, the
\* others the failure of the operation they just called, left to propagate
HandlerRaise ==
  /\ \E h \in {"render", "access", "exit", "dump"} :
       /\ Running(h)
       /\ \E ex \in (IF h = "exit" THEN HandlerFailures
                     ELSE {lastOp.exc} \ {NoExc}) : Fail(self, ex)
  /\ UNCHANGED <<argv, tty, self, sys_stdout, sys_stderr,
                 logging_configured, logger_level, stdout_tail, file, open_files, n_create,
                 n_client, dispatched, n_parse, lastOp>>

-----------------------------------------------------------------------------
(* The module-level run(argv) *)

\* run(argv): CommandLineInterface(argv).run(), with `except CmdExitError`
module_run(outcome) ==
  IF outcome.kind = "raise" /\ IsCmdExitError(outcome.exc)
    THEN Return(outcome.exc.code)
    ELSE outcome

\* what the caller of the module-level run(argv) observes
exit == module_run(result)

Next ==
  \/ ParseArgs
  \/ Configure
  \/ Dispatch
  \/ cmd_bare
  \/ cmd_version
  \/ cmd_test
  \/ PrettyPrint
  \/ GetAwsSession
  \/ GetS3
  \/ HandlerReturn
  \/ HandlerRaise

Spec == Init /\ [][Next]_vars

\* the runs of a "dump" handler
NextDump ==
  \/ ParseArgs
  \/ Configure
  \/ Dispatch
  \/ PrettyPrint
  \/ HandlerReturn
  \/ HandlerRaise

SpecDump == InitWith(DumpArgvs) /\ [][NextDump]_vars

-----------------------------------------------------------------------------
(* Properties *)

\* the local `traceback` of run()
Traceback == argv.traceback

\* run() has been left
Finished == pc \in {"Returned", "Raised"}

\* the 'lambda-venv: error: ...' lines run() itself printed
DiagLines == SelectSeq(stderr, LAMBDA l : l.by = "run")

\* the exit code a failure resolves to
FailureCode(ex) ==
  IF ex.type \in {"CmdExitError", "ArgparseExitError"} THEN ex.code ELSE 1

\* the diagnostic line for a failure, plain or wrapped in red
DiagTexts(ex) ==
  {"lambda-venv: error: " \o ex.msg,
   "ESC[31m" \o "lambda-venv: error: " \o ex.msg \o "ESC[0m"}

\* the most recent operation is a pretty_print call
Printed == lastOp.op = "pretty_print"

\* ... whose effective raw flag is true
RawCall == lastOp.raw = "True" \/ (lastOp.raw = None /\ self.raw)

\* ... whose effective compact flag is true
CompactCall == lastOp.compact = "True" \/ (lastOp.compact = None /\ self.compact)

\* ... which took the raw-string shortcut / the structured path
RawStringCall == Printed /\ RawCall /\ lastOp.value.t = "str"
StructuredCall == Printed /\ ~(RawCall /\ lastOp.value.t = "str")

\* C1 (as claimed): a grammar-triggered early exit makes run() return the
\* parser's exit code, with no handler dispatched, no logging or stream setup
\* done and no generic diagnostic line printed.
C1_GrammarExitReturnsCode ==
  (argv.parse # "ok" /\ pc # "Initialized") =>
    /\ result = Return(GrammarStatus(argv.parse))
    /\ dispatched = 0
    /\ ~logging_configured
    /\ sys_stdout = Stdout /\ sys_stderr = Stderr
    /\ DiagLines = <<>>

\* C2: with traceback off, a caught failure makes run() return the failure's
\* exit_code if it is a CmdExitError and 1 otherwise, whatever status a
\* CalledProcessError carries.
C2_FailureExitCode ==
  (caught # NoExc /\ ~Traceback) =>
    result = Return(IF caught.type \in {"CmdExitError", "ArgparseExitError"}
                      THEN caught.code ELSE 1)

C2_Witness ==
  /\ ~Traceback
  /\ caught.type = "CalledProcessError" /\ caught.code = 5
  /\ result = Return(1)

\* C3 (as claimed): with traceback on, a failure resolving to a non-zero code
\* reaches the caller of CommandLineInterface.run and the caller of the
\* module-level run(argv) unchanged.
C3_TracebackReachesEveryCaller ==
  (Traceback /\ caught # NoExc /\ FailureCode(caught) # 0) =>
    /\ result = Raise(caught)
    /\ exit = Raise(caught)

\* C3 (amended): with traceback on, a failure resolving to a non-zero code
\* leaves CommandLineInterface.run unchanged; the module-level run(argv) lets
\* it through too unless it is a CmdExitError, which it turns into the
\* returned exit code.
C3_TracebackPropagates ==
  (Traceback /\ caught # NoExc /\ FailureCode(caught) # 0) =>
    /\ result = Raise(caught)
    /\ exit = IF caught.type \in {"CmdExitError", "ArgparseExitError"}
                THEN Return(caught.code) ELSE Raise(caught)

C3_Witness ==
  /\ Traceback
  /\ caught.type = "CmdExitError" /\ caught.code = 3
  /\ result = Raise(caught)
  /\ exit = Return(3)

\* C4: a caught failure resolving to a non-zero code gets exactly one of the
\* two treatments: traceback off, one diagnostic line and the code returned;
\* traceback on, the failure re-raised unchanged and no diagnostic line.
C4_DiagnosticOrReraise ==
  (caught # NoExc /\ FailureCode(caught) # 0) =>
    IF Traceback
      THEN result = Raise(caught) /\ DiagLines = <<>>
      ELSE /\ result = Return(FailureCode(caught))
           /\ Len(DiagLines) = 1
           /\ DiagLines[1].text \in DiagTexts(caught)

C4_Witness ==
  /\ ~Traceback
  /\ caught.type = "RuntimeError"
  /\ result = Return(1)
  /\ Len(DiagLines) = 1

\* C5: a failed session construction is not cached and a call that finds no
\* session attempts construction; a session is constructed at most once; a call
\* that finds a session returns that very handle and constructs nothing.
C5_SessionMemoized ==
  /\ n_create <= 1
  /\ lastOp.op = "get_aws_session" =>
       IF lastOp.before.session = 0
         THEN /\ lastOp.tried
              /\ IF lastOp.exc # NoExc
                   THEN self.aws_session = 0 /\ ~lastOp.built
                   ELSE /\ lastOp.built
                        /\ self.aws_session # 0
                        /\ lastOp.ret = self.aws_session
         ELSE /\ ~lastOp.tried /\ ~lastOp.built
              /\ lastOp.exc = NoExc
              /\ lastOp.ret = lastOp.before.session
              /\ self.aws_session = lastOp.before.session

C5_Witness ==
  /\ lastOp.op = "get_aws_session"
  /\ lastOp.before.session # 0
  /\ lastOp.ret = lastOp.before.session
  /\ n_create = 1

\* C6 (as claimed): when the formatter exits non-zero, pretty_print fails with
\* a CalledProcessError carrying the status and the destination stream holds
\* all of the rendered output or none of it.
C6_FailedFormatterWritesAllOrNothing ==
  (Printed /\ lastOp.spawned /\ lastOp.env.jq.status # 0) =>
    /\ lastOp.exc.type = "CalledProcessError"
    /\ lastOp.exc.code = lastOp.env.jq.status
    /\ stdout_tail \in {<<>>, JqOutput(lastOp.value, CompactCall)}

\* C7: a pretty_print call with an effective raw flag and a string value
\* writes the string as it is to the default output stream and does nothing
\* else (no newline, no file opened or truncated, no formatter); with a value
\* that is not a string it takes the structured path.
C7_RawStringVerbatim ==
  [][ (Printed' /\ RawCall' /\ lastOp' # lastOp) =>
        IF lastOp'.value.t = "str"
          THEN /\ lastOp'.to = Stdout
               /\ stdout_tail' = <<lastOp'.value.s>>
               /\ file' = file
               /\ open_files' = open_files
               /\ ~lastOp'.opened /\ ~lastOp'.spawned
               /\ lastOp'.exc = NoExc
          ELSE /\ lastOp'.opened <=> self.output_file # None
               /\ ~lastOp'.opened => lastOp'.to = sys_stdout
               /\ (~lastOp'.spawned /\ lastOp'.exc = NoExc) =>
                    lastOp'.text = iterencode(lastOp'.value, CompactCall', 0)
                                     \o <<"\n">>
    ]_vars

C7_Witness ==
  /\ RawStringCall
  /\ lastOp.raw = None
  /\ self.output_file # None /\ self.compact /\ self.colorize_stdout
  /\ file.exists
  /\ stdout_tail = <<"a\"b">>

\* C8: a structured pretty_print call spawns the formatter if and only if
\* colorize is requested (the default), no output file is configured and the
\* default output stream was marked colorizable.
C8_FormatterSpawnedIff ==
  StructuredCall =>
    (lastOp.spawned <=>
       /\ lastOp.colorize \in {None, "True"}
       /\ self.output_file = None
       /\ self.colorize_stdout)

C8_Witness ==
  /\ StructuredCall
  /\ lastOp.spawned
  /\ lastOp.colorize = None

\* C9 (as claimed): without traceback, a run with an unknown subcommand or with
\* none returns 1 after printing "A command is required" to the diagnostic
\* stream.
C9_UnknownOrNoCommand ==
  (/\ argv.parse = "unknown_command" \/ (argv.parse = "ok" /\ argv.command = "")
   /\ ~Traceback /\ Finished /\ caught = NoExc) =>
    /\ result = Return(1)
    /\ stderr = <<[by |-> "cmd_bare", text |-> "A command is required"]>>

\* C9 (amended): without traceback, a run with no subcommand, once set up,
\* returns 1 after printing "A command is required" to the diagnostic stream.
C9_NoCommand ==
  (/\ argv.parse = "ok" /\ argv.command = ""
   /\ ~Traceback /\ Finished /\ caught = NoExc) =>
    /\ result = Return(1)
    /\ exit = Return(1)
    /\ stderr = <<[by |-> "cmd_bare", text |-> "A command is required"]>>

C9_Witness ==
  /\ argv.parse = "ok" /\ argv.command = "" /\ ~Traceback
  /\ dispatched = 1
  /\ result = Return(1)

\* C10: with an output file configured, a structured pretty_print call opens
\* the file, truncating it, and leaves no handle open however it ends; the
\* file holds what the most recent such call wrote and nothing older.
C10_FileOpenedFreshAndReleased ==
  /\ open_files = 0
  /\ (StructuredCall /\ self.output_file # None) =>
       /\ lastOp.opened
       /\ file.exists
       /\ file.text = lastOp.text
  /\ file.exists =>
       \E v \in Values \cup {pkg_version}, compact \in BOOLEAN :
         file.text \in {json_dump(v, compact), Part(json_dump(v, compact))}

C10_Witness ==
  /\ StructuredCall
  /\ lastOp.discarded
  /\ lastOp.exc.type = "OSError"
  /\ file.text = lastOp.text
  /\ open_files = 0

\* C11: when the dispatched handler returns normally, run() returns exactly the
\* handler's return value, zero or not, prints no 'lambda-venv: error:' line
\* of its own and raises nothing, whether traceback is on or off.
C11_HandlerReturnIsExitCode ==
  returned.kind = "return" =>
    /\ result = Return(returned.rc)
    /\ exit = Return(returned.rc)
    /\ DiagLines = <<>>
    /\ caught = NoExc

C11_Witness ==
  /\ Traceback
  /\ returned = Return(3)
  /\ result = Return(3)
  /\ DiagLines = <<>>

\* C14: once logging is set up, every chatty library logger has level
\* max(requested, INFO) and the credentials logger max(requested, WARNING), for
\* each of the five levels that can be requested: neither is more verbose than
\* INFO / WARNING, nor more verbose than the requested level.
C14_LibraryLoggersRestricted ==
  logging_configured =>
    LET requested == CASE argv.loglevel = "critical" -> 50
                       [] argv.loglevel = "error" -> 40
                       [] argv.loglevel = "warning" -> 30
                       [] argv.loglevel = "info" -> 20
                       [] argv.loglevel = "debug" -> 10
    IN /\ \A name \in ChattyLoggers :
            /\ logger_level[name] = IF requested > 20 THEN requested ELSE 20
            /\ logger_level[name] >= 20
            /\ logger_level[name] >= requested
       /\ logger_level["botocore.credentials"] =
            IF requested > 30 THEN requested ELSE 30
       /\ logger_level["botocore.credentials"] >= 30
       /\ logger_level["botocore.credentials"] >= requested

C14_Witness ==
  /\ logging_configured
  /\ argv.loglevel = "debug"
  /\ logger_level["root"] = 10
  /\ logger_level["urllib3.connectionpool"] = 20
  /\ logger_level["botocore.credentials"] = 30

\* C12: over any interleaving of get_s3 and get_aws_session calls, a client is
\* constructed at most once and from the memoized session get_aws_session
\* returns; a get_s3 call that finds no client attempts the construction, and
\* leaves the client unset if the session or the derivation fails; a call that
\* finds a client returns that very handle and constructs nothing.
C12_ClientMemoized ==
  /\ n_client <= 1
  /\ lastOp.op = "get_s3" =>
       IF lastOp.before.s3 = NoClient
         THEN /\ lastOp.before.session = 0 <=> lastOp.tried
              /\ lastOp.before.session # 0 =>
                   lastOp.ret = lastOp.before.session
              /\ IF lastOp.exc # NoExc
                   THEN self.s3 = NoClient /\ ~lastOp.built /\ n_client = 0
                   ELSE /\ lastOp.built
                        /\ lastOp.client # NoClient
                        /\ self.s3 = lastOp.client
                        /\ lastOp.client.session = lastOp.ret
                        /\ lastOp.ret = self.aws_session
                        /\ self.aws_session # 0
         ELSE /\ ~lastOp.built /\ ~lastOp.tried
              /\ lastOp.exc = NoExc
              /\ lastOp.client = lastOp.before.s3
              /\ self.s3 = lastOp.before.s3
              /\ self.aws_session = lastOp.before.session

C12_Witness ==
  /\ lastOp.op = "get_s3"
  /\ lastOp.before.s3 # NoClient
  /\ lastOp.client = lastOp.before.s3
  /\ n_client = 1 /\ n_create = 1

\* C13: a stream's colorize flag is true only if monochrome was not requested
\* and the probe of that stream answered yes; a standard stream is replaced by
\* a wrapper only if its own flag is true; so under monochrome neither
\* standard stream is replaced, no formatter is spawned and the diagnostic
\* line carries no colour codes.
C13_ColorizeNeedsTerminal ==
  /\ self.colorize_stdout => (~argv.monochrome /\ tty.stdout = "yes")
  /\ self.colorize_stderr => (~argv.monochrome /\ tty.stderr = "yes")
  /\ sys_stdout # Stdout => self.colorize_stdout
  /\ sys_stderr # Stderr => self.colorize_stderr
  /\ argv.monochrome =>
       /\ sys_stdout = Stdout /\ sys_stderr = Stderr
       /\ ~lastOp.spawned
       /\ \A i \in DOMAIN DiagLines :
            DiagLines[i].text = "lambda-venv: error: " \o caught.msg

C13_Witness ==
  /\ argv.monochrome
  /\ StructuredCall /\ lastOp.colorize = "True" /\ ~lastOp.spawned
  /\ Len(DiagLines) = 1
  /\ DiagLines[1].text = "lambda-venv: error: [Errno 28] No space left on device"
  /\ sys_stdout = Stdout /\ sys_stderr = Stderr

\* C16: a handler raising CmdExitError with exit_code 0 makes run() return 0,
\* with no diagnostic line and no re-raise, whether traceback is on or off.
C16_ExitZeroIsSuccess ==
  (caught.type = "CmdExitError" /\ caught.code = 0) =>
    /\ result = Return(0)
    /\ exit = Return(0)
    /\ DiagLines = <<>>

C16_Witness ==
  /\ Traceback
  /\ dispatched = 1
  /\ caught = CmdExitError(0, None)
  /\ result = Return(0)

\* C19: a memoized client implies a memoized session, the one the client was
\* derived from; a get_s3 call whose session construction fails leaves both
\* unset, and one whose client derivation fails leaves the session memoized
\* and the client unset.
C19_ClientImpliesSession ==
  /\ self.s3 # NoClient =>
       (self.aws_session # 0 /\ self.s3.session = self.aws_session)
  /\ (lastOp.op = "get_s3" /\ lastOp.exc # NoExc) =>
       IF lastOp.ret = 0
         THEN self.aws_session = 0 /\ self.s3 = NoClient
         ELSE /\ self.aws_session = lastOp.ret
              /\ self.s3 = NoClient

C19_Witness ==
  /\ lastOp.op = "get_s3"
  /\ lastOp.exc # NoExc
  /\ lastOp.before.session = 0
  /\ lastOp.ret # 0
  /\ self.aws_session = lastOp.ret
  /\ self.s3 = NoClient

\* the steps of the coordinator's state order
StateOrder ==
  { <<"Initialized", "ArgsParsed">>, <<"Initialized", "Returned">>,
    <<"Initialized", "Raised">>, <<"ArgsParsed", "Configured">>,
    <<"ArgsParsed", "Returned">>, <<"ArgsParsed", "Raised">>,
    <<"Configured", "Dispatched">>, <<"Dispatched", "Returned">>,
    <<"Dispatched", "Raised">> }

\* every RunConfig field holds what the command line asks for, and the logging
\* and colorization setup is done
SetupComplete ==
  /\ self.args = ParsedArgs(argv)
  /\ self.raw = argv.raw
  /\ self.compact = argv.compact
  /\ self.output_file = argv.output_file
  /\ self.encoding = "utf-8"
  /\ self.cwd = "/abs/."
  /\ logging_configured
  /\ \A name \in ChattyLoggers : logger_level[name] # 0
  /\ IF argv.monochrome
       THEN ~self.colorize_stdout /\ ~self.colorize_stderr
       ELSE /\ self.colorize_stdout <=> tty.stdout = "yes"
            /\ self.colorize_stderr <=> tty.stderr = "yes"
            /\ tty.stdout # "unprobed" /\ tty.stderr # "unprobed"

\* C17: a run follows the coordinator's state order, parses the arguments at
\* most once, dispatches at most one handler and is left exactly once: the
\* handler is called only after every RunConfig field is assigned and logging
\* and colorization are set up, never after a grammar exit, and never twice;
\* once run() is left its outcome stands and nothing more happens.
C17_StateOrderOneDispatch ==
  /\ [](/\ n_parse <= 1 /\ dispatched <= 1
        /\ pc = "Initialized" <=> n_parse = 0
        /\ dispatched = 1 => (n_parse = 1 /\ argv.parse = "ok" /\ SetupComplete)
        /\ pc = "Dispatched" => dispatched = 1
        /\ argv.parse # "ok" => dispatched = 0
        /\ Finished <=> result # NoResult)
  /\ [][/\ pc' # pc => <<pc, pc'>> \in StateOrder
        /\ dispatched' # dispatched => pc = "Configured" /\ pc' = "Dispatched"
        /\ n_parse' # n_parse => pc = "Initialized"
        /\ Finished => (pc' = pc /\ result' = result)
        /\ result' # result => (result = NoResult /\ Finished')
       ]_vars

C17_Witness ==
  /\ pc = "Returned"
  /\ n_parse = 1 /\ dispatched = 1
  /\ self.raw /\ self.compact /\ self.output_file = "out.json"
  /\ self.colorize_stdout /\ ~self.colorize_stderr
  /\ result = Return(0)

\* the RunConfig fields of the instance me
RunConfig(me) ==
  <<me.args, me.raw, me.compact, me.output_file, me.encoding, me.cwd,
    me.raw_stdout, me.raw_stderr>>

\* C18: once the handler is dispatched, no step (a pretty_print, get_aws_session
\* or get_s3 call, the error handler, the return) changes the RunConfig
\* fields, the colorize flags or the objects bound to the standard streams,
\* and a pretty_print call changes neither the memoized session nor the client.
C18_NoReconfigurationMidRun ==
  [][ pc = "Dispatched" =>
        /\ RunConfig(self') = RunConfig(self)
        /\ self'.colorize_stdout = self.colorize_stdout
        /\ self'.colorize_stderr = self.colorize_stderr
        /\ sys_stdout' = sys_stdout /\ sys_stderr' = sys_stderr
        /\ lastOp'.op = "pretty_print" =>
             /\ self'.aws_session = self.aws_session
             /\ self'.s3 = self.s3
             /\ n_create' = n_create /\ n_client' = n_client
    ]_vars

C18_Witness ==
  /\ pc = "Dispatched"
  /\ lastOp.op = "pretty_print"
  /\ lastOp.before.s3 # NoClient
  /\ self.s3 = lastOp.before.s3 /\ self.aws_session = lastOp.before.session
  /\ self.colorize_stdout /\ sys_stdout = AnsiToWin32(Stdout)

-----------------------------------------------------------------------------
(* Deserialization: what json.loads makes of a text, for the round trip *)

\* the integers the documents hold
Numbers == -9 .. 9
IsNumber(c) == \E n \in Numbers : ToString(n) = c
NumberOf(c) == CHOOSE n \in Numbers : ToString(n) = c

\* the content of a JSON string literal is valid: it holds no bare quote,
\* newline or backslash
IsStringContent(c) == c \notin {"a\"b", "x\ny", "c:\\d"}

\* the string a literal's content stands for
Unescape(c) ==
  CASE c = "a\\\"b" -> "a\"b"
    [] c = "x\\ny" -> "x\ny"
    [] c = "c:\\\\d" -> "c:\\d"
    [] OTHER -> c

IsWhitespace(c) == c \in {"\n", "\n  ", "\n    ", "\n      ", " "}

RECURSIVE skip_whitespace(_, _)
skip_whitespace(t, i) ==
  IF i <= Len(t) /\ IsWhitespace(t[i]) THEN skip_whitespace(t, i + 1) ELSE i

\* the chunk at position i, or the end of the text
At(t, i) == IF i <= Len(t) THEN t[i] ELSE "<end>"

ParseError == [ok |-> FALSE, val |-> JNull, next |-> 0]
Parsed(val, next) == [ok |-> TRUE, val |-> val, next |-> next]

\* a string literal whose opening quote is at i
scan_string(t, i) ==
  IF i + 2 <= Len(t) /\ t[i + 2] = "\"" /\ IsStringContent(t[i + 1])
    THEN Parsed(JStr(Unescape(t[i + 1])), i + 3)
    ELSE ParseError

RECURSIVE scan_value(_, _)
RECURSIVE scan_array(_, _, _)
RECURSIVE scan_object(_, _, _)

\* the value starting at i (after whitespace), and where it ends
scan_value(t, i) ==
  LET j == skip_whitespace(t, i)
      c == At(t, j)
  IN CASE c = "\"" -> scan_string(t, j)
       [] c = "null" -> Parsed(JNull, j + 1)
       [] c = "true" -> Parsed(JBool(TRUE), j + 1)
       [] c = "false" -> Parsed(JBool(FALSE), j + 1)
       [] c = "[]" -> Parsed(JList(<<>>), j + 1)
       [] c = "{}" -> Parsed(JDict(<<>>), j + 1)
       [] c = "[" -> scan_array(t, j + 1, <<>>)
       [] c = "{" -> scan_object(t, j + 1, <<>>)
       [] OTHER -> IF IsNumber(c) THEN Parsed(JNum(NumberOf(c)), j + 1)
                   ELSE ParseError

\* the rest of an array whose items so far are acc
scan_array(t, i, acc) ==
  LET r == scan_value(t, i)
      k == skip_whitespace(t, r.next)
      c == At(t, k)
  IN IF ~r.ok THEN ParseError
     ELSE CASE c = "," -> scan_array(t, k + 1, Append(acc, r.val))
            [] c = "]" -> Parsed(JList(Append(acc, r.val)), k + 1)
            [] OTHER -> ParseError

\* the rest of an object whose items so far are acc
scan_object(t, i, acc) ==
  LET j == skip_whitespace(t, i)
      key == scan_string(t, j)
      k == skip_whitespace(t, key.next)
      r == scan_value(t, k + 1)
      m == skip_whitespace(t, r.next)
      c == At(t, m)
      item == <<key.val.s, r.val>>
  IN IF At(t, j) # "\"" \/ ~key.ok THEN ParseError
     ELSE IF At(t, k) \notin {":", ": "} THEN ParseError
     ELSE IF ~r.ok THEN ParseError
     ELSE CASE c = "," -> scan_object(t, m + 1, Append(acc, item))
            [] c = "}" -> Parsed(JDict(Append(acc, item)), m + 1)
            [] OTHER -> ParseError

\* json.loads(text): one value, then nothing but whitespace
loads(t) ==
  LET r == scan_value(t, 1)
  IN IF r.ok /\ skip_whitespace(t, r.next) = Len(t) + 1 THEN r ELSE ParseError

\* equality of two values as Python compares them: lists item by item, dicts
\* as mappings, whatever the order of their items
RECURSIVE JEq(_, _)
JEq(a, b) ==
  /\ a.t = b.t
  /\ CASE a.t = "list" ->
            /\ Len(a.items) = Len(b.items)
            /\ \A i \in DOMAIN a.items : JEq(a.items[i], b.items[i])
       [] a.t = "dict" ->
            /\ Len(a.items) = Len(b.items)
            /\ \A i \in DOMAIN a.items : \E j \in DOMAIN b.items :
                 /\ a.items[i][1] = b.items[j][1]
                 /\ JEq(a.items[i][2], b.items[j][2])
       [] OTHER -> a = b

\* the keys of the documents, in sorted order
KeyOrder == <<"B", "a", "b", "c">>
Position(k) == CHOOSE i \in DOMAIN KeyOrder : KeyOrder[i] = k

\* every object of v lists its keys in strictly increasing order
RECURSIVE KeysSorted(_)
KeysSorted(v) ==
  CASE v.t = "list" -> \A i \in DOMAIN v.items : KeysSorted(v.items[i])
    [] v.t = "dict" ->
         /\ \A i \in DOMAIN v.items : KeysSorted(v.items[i][2])
         /\ \A i \in DOMAIN v.items : \A j \in DOMAIN v.items :
              i < j => Position(v.items[i][1]) < Position(v.items[j][1])
    [] OTHER -> TRUE

\* C15: pretty_print(v, compact=false, raw=false) on the non-colorized path
\* writes a text that ends in a newline and deserializes to a value equal to
\* v, with the keys of every object in sorted order.
C15_RoundTrip ==
  (/\ Printed /\ lastOp.raw = "False" /\ lastOp.compact = "False"
   /\ ~lastOp.spawned /\ lastOp.exc = NoExc) =>
    LET t == lastOp.text
        back == loads(t)
    IN /\ t # <<>> /\ t[Len(t)] = "\n"
       /\ back.ok
       /\ back.next = Len(t)
       /\ JEq(back.val, lastOp.value)
       /\ KeysSorted(back.val)
       /\ lastOp.opened => file.text = t
       /\ ~lastOp.opened => stdout_tail = t

C15_Witness ==
  /\ Printed /\ lastOp.raw = "False" /\ lastOp.compact = "False"
  /\ ~lastOp.spawned /\ lastOp.exc = NoExc
  /\ self.raw /\ self.compact
  /\ lastOp.value.t = "dict" /\ Len(lastOp.value.items) = 2
  /\ lastOp.value.items[1][1] = "c"
  /\ loads(stdout_tail).val.items[1][1] = "a"
  /\ loads(stdout_tail).val.items[2][2].items[1][1] = "B"

====
